---- MODULE Spec2Model ----
(***************************************************************************)
(* Model of etl_toolbox: the cell-level cleaning functions                 *)
(* (cleaning_functions.py), the DataFrame functions                        *)
(* (dataframe_functions.py) and the label mapping functions                *)
(* (mapping_functions.py).                                                 *)
(*                                                                         *)
(* The state: df is the caller's table, value the argument of a call on a  *)
(* value or on a list of labels and cleaned what it returned; pre, call    *)
(* and result record the table at entry, the call's arguments and its      *)
(* outcome.                                                                *)
(*                                                                         *)
(* A Python value is a record [t, v, items]: t is the type name, v is      *)
(* str(value) as a sequence of one-character strings, items the elements   *)
(* of a collection (<<>> for a scalar).  A DataFrame is a record           *)
(* [index, columns, data]: index is [vals, name], columns the sequence of  *)
(* column labels (values), data the sequence of rows (sequences of cells). *)
(***************************************************************************)
EXTENDS Integers, Sequences, FiniteSets, TLC

VARIABLES df, pre, call, result, log, value, cleaned

vars == <<df, pre, call, result, log, value, cleaned>>

(* ------------------------------ bounds ------------------------------- *)

\* a caller's table has at most MaxCells cells (rows times columns)
MaxCells == 6

\* thresholds range over 0..MaxThresh
MaxThresh == 2

\* a collection passed to clean_null has at most MaxItems elements
MaxItems == 2

\* a text given to fingerprint, and a list of labels, has at most MaxText
\* characters or labels
MaxText == 3

(* ------------------------- Python values ----------------------------- *)

Str(s) == [t |-> "str", v |-> s, items |-> <<>>]

NoneV == [t |-> "NoneType", v |-> <<"N", "o", "n", "e">>, items |-> <<>>]

NaN == [t |-> "float", v |-> <<"n", "a", "n">>, items |-> <<>>]

Digit(n) == <<"0", "1", "2", "3", "4", "5", "6", "7", "8", "9">>[n + 1]

RECURSIVE IntStr(_)
IntStr(n) == IF n < 10 THEN <<Digit(n)>> ELSE IntStr(n \div 10) \o <<Digit(n % 10)>>

IntV(n) == [t |-> "int", v |-> IntStr(n), items |-> <<>>]

UpperChars == <<"A", "B", "C", "D", "E", "F", "G", "H", "I", "J", "K", "L", "M",
                "N", "O", "P", "Q", "R", "S", "T", "U", "V", "W", "X", "Y", "Z">>

LowerChars == <<"a", "b", "c", "d", "e", "f", "g", "h", "i", "j", "k", "l", "m",
                "n", "o", "p", "q", "r", "s", "t", "u", "v", "w", "x", "y", "z">>

DigitChars == {"0", "1", "2", "3", "4", "5", "6", "7", "8", "9"}

Range(s) == {s[i] : i \in DOMAIN s}

\* str.lower(), character by character
LowerOf ==
    [c \in Range(UpperChars) |->
        LowerChars[CHOOSE i \in DOMAIN UpperChars : UpperChars[i] = c]]

Lower(c) == IF c \in DOMAIN LowerOf THEN LowerOf[c] ELSE c

\* the characters the class [0-9a-z] lets through
Alnum == DigitChars \cup Range(LowerChars)

fingerprint_keeping_case(x, special_characters) ==
    LET keep(c) == c \in Alnum \/ c \in Range(UpperChars) \/ c \in special_characters
    IN  SelectSeq(x.v, keep)

\* re.sub(r'[^0-9a-z<special_characters>]', '', str(x).lower())
fingerprint(x, special_characters) ==
    LET keep(c) == c \in Alnum \/ c \in special_characters
    IN  SelectSeq([i \in DOMAIN x.v |-> Lower(x.v[i])], keep)

(* --------------------------- DataFrames ------------------------------ *)

NoName == "None"

NRows(d) == Len(d.data)

NCols(d) == Len(d.columns)

\* pd.RangeIndex(n), unnamed
RangeIndex(n) == [vals |-> [i \in 1..n |-> i - 1], name |-> NoName]

index_is_default(d) ==
    d.index.vals = RangeIndex(NRows(d)).vals /\ d.index.name = NoName

\* df.reset_index(drop=True, inplace=True)
reset_index(d) == [d EXCEPT !.index = RangeIndex(NRows(d))]

\* the positions of 1..n that are in the set keep, in increasing order
Positions(n, keep) ==
    LET kept(k) == k \in keep
    IN  SelectSeq([k \in 1..n |-> k], kept)

(* ------------------------ find_column_labels ------------------------- *)

\* the counting loop over the cells of one row (or over df.columns)
label_count(cells, label_fingerprints, special_characters) ==
    Cardinality({j \in DOMAIN cells :
                    fingerprint(cells[j], special_characters) \in label_fingerprints})

label_index_of_last(d, label_fingerprints, label_match_thresh, special_characters) ==
    LET hits == {i \in 1..NRows(d) :
                    label_count(d.data[i], label_fingerprints, special_characters)
                        >= label_match_thresh}
    IN  IF hits = {} THEN 0 ELSE CHOOSE i \in hits : \A k \in hits : i >= k

\* the scan over df.iterrows(): the 1-based position of the first row that
\* reaches the threshold, 0 when label_index stays None
label_index_of(d, label_fingerprints, label_match_thresh, special_characters) ==
    LET hits == {i \in 1..NRows(d) :
                    label_count(d.data[i], label_fingerprints, special_characters)
                        >= label_match_thresh}
    IN  IF hits = {} THEN 0 ELSE CHOOSE i \in hits : \A k \in hits : i <= k

HasDuplicates(seq) == \E i, j \in DOMAIN seq : i # j /\ seq[i] = seq[j]

\* str() of the pandas Series that df.loc[label_index][x] gives for a
\* duplicated label x: one "label    value" line per occurrence and a footer
RECURSIVE SeriesLines(_, _, _)
SeriesLines(columns, row, ps) ==
    IF ps = <<>> THEN <<>>
    ELSE columns[Head(ps)].v \o <<" ", " ", " ", " ">> \o row[Head(ps)].v \o <<"\n">>
         \o SeriesLines(columns, row, Tail(ps))

SeriesOf(columns, row, ps, label_index) ==
    [t |-> "Series",
     v |-> SeriesLines(columns, row, ps)
           \o <<"N", "a", "m", "e", ":", " ">> \o IntStr(label_index - 1)
           \o <<",", " ", "d", "t", "y", "p", "e", ":", " ",
                "o", "b", "j", "e", "c", "t">>,
     items |-> [k \in DOMAIN ps |-> row[ps[k]]]]

\* df.rename(columns=df.loc[label_index]): every old label x is replaced by the
\* lookup mapper[x] in the header row keyed by the old labels; a label that
\* occurs once gives the cell below it, a duplicated label gives the Series of
\* all the cells below its occurrences
rename_columns(columns, row, label_index) ==
    [j \in DOMAIN columns |->
        LET ps == Positions(Len(columns),
                            {k \in DOMAIN columns : columns[k] = columns[j]})
        IN  IF Len(ps) = 1 THEN row[j] ELSE SeriesOf(columns, row, ps, label_index)]

\* df.drop(df.loc[:label_index].index, inplace=True) on the RangeIndex: the
\* rows at positions 0..label_index go, with their index entries
drop_through(d, label_index) ==
    [d EXCEPT !.data = SubSeq(d.data, label_index + 1, Len(d.data)),
              !.index.vals = SubSeq(d.index.vals, label_index + 1, Len(d.index.vals))]

restore_index_renumbered(initial_index, label_index) ==
    [initial_index EXCEPT
        !.vals = [i \in 1..(Len(initial_index.vals) - label_index) |-> i - 1]]

restore_index_off_by_one(initial_index, label_index) ==
    [initial_index EXCEPT
        !.vals = SubSeq(initial_index.vals, label_index, Len(initial_index.vals))]

\* initial_index[label_index + 1:]
restore_index(initial_index, label_index) ==
    [initial_index EXCEPT
        !.vals = SubSeq(initial_index.vals, label_index + 1, Len(initial_index.vals))]

\* if label_match_thresh == 0: raise ValueError
invalid_threshold_never(label_match_thresh) == FALSE

invalid_threshold(label_match_thresh) == label_match_thresh = 0

\* if label_count >= label_match_thresh: return None
labels_already_correct_strict(count, label_match_thresh) ==
    count > label_match_thresh

labels_already_correct(count, label_match_thresh) == count >= label_match_thresh

\* The whole function.  The result is the table as the caller sees it afterwards
\* and the outcome ("None" for a normal return, else the exception's name).
\* index_raises: building an Index from Series lookups of duplicated labels
\* either raises ValueError inside rename() or yields Series objects as labels,
\* depending on the shapes numpy meets; both are outcomes of the call.
find_column_labels(d, label_fingerprints, label_match_thresh, special_characters, index_raises) ==
    IF invalid_threshold(label_match_thresh)
    THEN [df |-> d, result |-> "ValueError"]
    ELSE IF labels_already_correct(
                label_count(d.columns, label_fingerprints, special_characters),
                label_match_thresh)
    THEN [df |-> d, result |-> "None"]
    ELSE
        LET initial_index == d.index
            initial_index_is_default == index_is_default(d)
            d1 == IF ~initial_index_is_default THEN reset_index(d) ELSE d
            label_index == label_index_of(d1, label_fingerprints,
                                          label_match_thresh, special_characters)
        IN  IF label_index = 0 THEN [df |-> d1, result |-> "IndexError"]
            ELSE IF HasDuplicates(d1.columns) /\ index_raises
            THEN [df |-> d1, result |-> "ValueError"]
            ELSE
                LET d2 == [d1 EXCEPT
                             !.columns = rename_columns(d1.columns,
                                             d1.data[label_index], label_index)]
                    d3 == drop_through(d2, label_index)
                IN  [df |-> IF initial_index_is_default
                            THEN reset_index(d3)
                            ELSE [d3 EXCEPT !.index =
                                      restore_index(initial_index, label_index)],
                     result |-> "None"]

(* --------------------------- ast.literal_eval -------------------------- *)

\* repr() of a value: a text is quoted, in double quotes when it holds a single
\* quote and no double one (a text that needs an escape is outside the values
\* modelled); the other values print as str() does
Repr(x) ==
    IF x.t # "str" THEN x.v
    ELSE IF "'" \in Range(x.v) /\ "\"" \notin Range(x.v)
    THEN <<"\"">> \o x.v \o <<"\"">>
    ELSE <<"'">> \o x.v \o <<"'">>

RECURSIVE JoinReprs(_)
JoinReprs(items) ==
    IF items = <<>> THEN <<>>
    ELSE IF Len(items) = 1 THEN Repr(items[1])
    ELSE Repr(items[1]) \o <<",", " ">> \o JoinReprs(Tail(items))

\* a Python list
ListV(items) ==
    [t |-> "list", v |-> <<"[">> \o JoinReprs(items) \o <<"]">>, items |-> items]

\* what == and hash() compare: True and 1 and 1.0 are one number, False and 0
\* and 0.0 another (numbers inside tuples are compared as written)
PyKey(x) ==
    IF x.t = "bool"
    THEN [t |-> "number", v |-> IF x.v = <<"T", "r", "u", "e">> THEN <<"1">> ELSE <<"0">>,
          items |-> <<>>]
    ELSE IF x.t = "float" /\ Len(x.v) >= 3
            /\ SubSeq(x.v, Len(x.v) - 1, Len(x.v)) = <<".", "0">>
    THEN [t |-> "number", v |-> SubSeq(x.v, 1, Len(x.v) - 2), items |-> <<>>]
    ELSE IF x.t \in {"int", "float"} THEN [t |-> "number", v |-> x.v, items |-> <<>>]
    ELSE x

\* the elements of a sequence without repetitions, in order of first occurrence
Dedup(items) ==
    LET ps == Positions(Len(items),
                        {k \in DOMAIN items :
                            \A m \in 1..(k - 1) : PyKey(items[m]) # PyKey(items[k])})
    IN  [k \in DOMAIN ps |-> items[ps[k]]]

\* a Python set; its elements are kept in order of first occurrence
SetV(items) ==
    LET e == Dedup(items)
    IN  [t |-> "set",
         v |-> IF e = <<>> THEN <<"s", "e", "t", "(", ")">>
               ELSE <<"{">> \o JoinReprs(e) \o <<"}">>,
         items |-> e]

\* a Python tuple
TupleV(items) ==
    [t |-> "tuple",
     v |-> <<"(">> \o JoinReprs(items)
           \o (IF Len(items) = 1 THEN <<",">> ELSE <<>>) \o <<")">>,
     items |-> items]

RECURSIVE JoinPairs(_, _)
JoinPairs(keys, vals) ==
    IF keys = <<>> THEN <<>>
    ELSE Repr(keys[1]) \o <<":", " ">> \o Repr(vals[1])
         \o (IF Len(keys) = 1 THEN <<>> ELSE <<",", " ">>)
         \o JoinPairs(Tail(keys), Tail(vals))

\* a Python dict; iterating it yields its keys, which are its items
DictV(keys, vals) ==
    [t |-> "dict", v |-> <<"{">> \o JoinPairs(keys, vals) \o <<"}">>, items |-> keys]

\* a bytes literal without escapes: every byte is a nonzero int
BytesV(chars) ==
    [t |-> "bytes", v |-> <<"b", "'">> \o chars \o <<"'">>,
     items |-> [k \in DOMAIN chars |-> IntV(1)]]

BoolV(b) ==
    [t |-> "bool",
     v |-> IF b THEN <<"T", "r", "u", "e">> ELSE <<"F", "a", "l", "s", "e">>,
     items |-> <<>>]

\* str() of a float written as <digits>.<digits>: trailing zeros of the
\* fraction go, one digit stays
RECURSIVE StripZeros(_)
StripZeros(frac) ==
    IF Len(frac) > 1 /\ frac[Len(frac)] = "0"
    THEN StripZeros(SubSeq(frac, 1, Len(frac) - 1)) ELSE frac

FloatV(whole, frac) ==
    [t |-> "float", v |-> whole \o <<".">> \o StripZeros(frac), items |-> <<>>]

\* a failed evaluation and the exception it raises
ParseFailOf(err) == [ok |-> FALSE, val |-> NoneV, next |-> 0, commas |-> 0, err |-> err]

\* the text is not an expression
ParseFail == ParseFailOf("SyntaxError")

\* hash(x) succeeds: lists, sets and dicts are unhashable, a tuple is hashable
\* when its elements are
RECURSIVE Hashable(_)
Hashable(x) ==
    /\ x.t \notin {"list", "set", "dict"}
    /\ x.t = "tuple" => \A k \in DOMAIN x.items : Hashable(x.items[k])

\* a dict built from key: value pairs in source order: a key written again
\* keeps its first position and takes the later value
RECURSIVE DictOf(_, _, _, _)
DictOf(keys, vals, ks, vs) ==
    IF keys = <<>> THEN DictV(ks, vs)
    ELSE IF \E k \in DOMAIN ks : PyKey(ks[k]) = PyKey(Head(keys))
    THEN LET k == CHOOSE m \in DOMAIN ks : PyKey(ks[m]) = PyKey(Head(keys))
         IN  DictOf(Tail(keys), Tail(vals), ks, [vs EXCEPT ![k] = Head(vals)])
    ELSE DictOf(Tail(keys), Tail(vals), Append(ks, Head(keys)), Append(vs, Head(vals)))

Parsed(val, next) == [ok |-> TRUE, val |-> val, next |-> next, commas |-> 0, err |-> ""]

RECURSIVE SkipSpaces(_, _)
SkipSpaces(s, i) ==
    IF i <= Len(s) /\ s[i] \in {" ", "\t"} THEN SkipSpaces(s, i + 1) ELSE i

\* the end (exclusive) of the run of digits that starts at i
RECURSIVE DigitsEnd(_, _)
DigitsEnd(s, i) ==
    IF i <= Len(s) /\ s[i] \in DigitChars THEN DigitsEnd(s, i + 1) ELSE i

\* the position of the quote that closes a string opened before i, 0 if none
\* (a backslash is outside the grammar modelled)
RECURSIVE ClosingQuote(_, _, _)
ClosingQuote(s, i, q) ==
    IF i > Len(s) \/ s[i] = "\\" THEN 0
    ELSE IF s[i] = q THEN i
    ELSE ClosingQuote(s, i + 1, q)

StartsWith(s, i, word) ==
    /\ i + Len(word) - 1 <= Len(s)
    /\ SubSeq(s, i, i + Len(word) - 1) = word
    /\ (i + Len(word) > Len(s)
        \/ s[i + Len(word)] \notin (Alnum \cup Range(UpperChars) \cup {"_"}))

\* The grammar of literals modelled: None, True, False, non-negative ints and
\* floats, quoted texts and bytes without escapes (with the prefixes u, r, b),
\* and lists, tuples, sets and dicts of literals.  ParseValue reads one literal
\* at position i; ParseElems the elements up to the closing bracket.
RECURSIVE ParseValue(_, _), ParseElems(_, _, _, _, _), ParsePairs(_, _, _, _)
ParseValue(s, i) ==
    IF i > Len(s) THEN ParseFail
    ELSE LET c == s[i] IN
    IF c \in {"'", "\""}
    THEN LET k == ClosingQuote(s, i + 1, c)
         IN  IF k = 0 THEN ParseFail ELSE Parsed(Str(SubSeq(s, i + 1, k - 1)), k + 1)
    ELSE IF c \in {"u", "U", "r", "R", "b", "B"} /\ i < Len(s) /\ s[i + 1] \in {"'", "\""}
    THEN LET k == ClosingQuote(s, i + 2, s[i + 1])
             body == SubSeq(s, i + 2, k - 1)
         IN  IF k = 0 THEN ParseFail
             ELSE Parsed(IF c \in {"b", "B"} THEN BytesV(body) ELSE Str(body), k + 1)
    ELSE IF c \in DigitChars
    THEN LET e == DigitsEnd(s, i)
             whole == SubSeq(s, i, e - 1)
         IN  IF e <= Len(s) /\ s[e] = "."
             THEN LET f == DigitsEnd(s, e + 1)
                  IN  IF f = e + 1 \/ (Len(whole) > 1 /\ whole[1] = "0")
                      THEN ParseFail
                      ELSE Parsed(FloatV(whole, SubSeq(s, e + 1, f - 1)), f)
             ELSE IF Len(whole) > 1 /\ whole[1] = "0" THEN ParseFail
             ELSE Parsed([t |-> "int", v |-> whole, items |-> <<>>], e)
    ELSE IF StartsWith(s, i, <<"N", "o", "n", "e">>) THEN Parsed(NoneV, i + 4)
    ELSE IF StartsWith(s, i, <<"T", "r", "u", "e">>) THEN Parsed(BoolV(TRUE), i + 4)
    ELSE IF StartsWith(s, i, <<"F", "a", "l", "s", "e">>) THEN Parsed(BoolV(FALSE), i + 5)
    ELSE IF c = "["
    THEN LET r == ParseElems(s, i + 1, "]", <<>>, 0)
         IN  IF r.ok THEN Parsed(ListV(r.val), r.next) ELSE r
    ELSE IF c = "("
    THEN LET r == ParseElems(s, i + 1, ")", <<>>, 0)
         IN  IF ~r.ok THEN r
             ELSE IF Len(r.val) = 1 /\ r.commas = 0 THEN Parsed(r.val[1], r.next)
             ELSE Parsed(TupleV(r.val), r.next)
    ELSE IF c = "{"
    THEN LET j == SkipSpaces(s, i + 1)
             first == ParseValue(s, j)
             k == SkipSpaces(s, first.next)
         IN  IF j <= Len(s) /\ s[j] = "}" THEN Parsed(DictV(<<>>, <<>>), j + 1)
             ELSE IF first.ok /\ k <= Len(s) /\ s[k] = ":"
             THEN LET r == ParsePairs(s, j, <<>>, <<>>)
                  IN  IF ~r.ok THEN r
                      ELSE IF \E m \in DOMAIN r.val.keys : ~Hashable(r.val.keys[m])
                      THEN ParseFailOf("TypeError")
                      ELSE Parsed(DictOf(r.val.keys, r.val.vals, <<>>, <<>>), r.next)
             ELSE LET r == ParseElems(s, i + 1, "}", <<>>, 0)
                  IN  IF ~r.ok THEN r
                      ELSE IF \E m \in DOMAIN r.val : ~Hashable(r.val[m])
                      THEN ParseFailOf("TypeError")
                      ELSE Parsed(SetV(r.val), r.next)
    ELSE IF c \in Alnum \cup Range(UpperChars) \cup {"_"} THEN ParseFailOf("ValueError")
    ELSE ParseFail

ParseElems(s, i, close, acc, commas) ==
    LET j == SkipSpaces(s, i)
    IN  IF j > Len(s) THEN ParseFail
        ELSE IF s[j] = close
        THEN [ok |-> TRUE, val |-> acc, next |-> j + 1, commas |-> commas, err |-> ""]
        ELSE LET e == ParseValue(s, j)
                 k == SkipSpaces(s, e.next)
             IN  IF ~e.ok THEN e
                 ELSE IF k > Len(s) THEN ParseFail
                 ELSE IF s[k] = ","
                 THEN ParseElems(s, k + 1, close, Append(acc, e.val), commas + 1)
                 ELSE IF s[k] = close
                 THEN [ok |-> TRUE, val |-> Append(acc, e.val), next |-> k + 1,
                       commas |-> commas, err |-> ""]
                 ELSE ParseFail

ParsePairs(s, i, keys, vals) ==
    LET j == SkipSpaces(s, i)
    IN  IF j > Len(s) THEN ParseFail
        ELSE IF s[j] = "}"
        THEN [ok |-> TRUE, val |-> [keys |-> keys, vals |-> vals], next |-> j + 1,
              commas |-> 0, err |-> ""]
        ELSE LET key == ParseValue(s, j)
                 k == SkipSpaces(s, key.next)
                 val == ParseValue(s, SkipSpaces(s, k + 1))
                 m == SkipSpaces(s, val.next)
             IN  IF ~key.ok THEN key
                 ELSE IF k > Len(s) \/ s[k] # ":" THEN ParseFail
                 ELSE IF ~val.ok THEN val
                 ELSE IF m > Len(s) THEN ParseFail
                 ELSE IF s[m] = ","
                 THEN ParsePairs(s, m + 1, Append(keys, key.val), Append(vals, val.val))
                 ELSE IF s[m] = "}"
                 THEN [ok |-> TRUE,
                       val |-> [keys |-> Append(keys, key.val),
                                vals |-> Append(vals, val.val)],
                       next |-> m + 1, commas |-> 0, err |-> ""]
                 ELSE ParseFail

\* ast.literal_eval(x): the value of the whole text, or a failure (the
\* exception the caller catches)
literal_eval(x) ==
    LET r == ParseValue(x.v, SkipSpaces(x.v, 1))
    IN  IF ~r.ok THEN r
        ELSE IF SkipSpaces(x.v, r.next) = Len(x.v) + 1 THEN r ELSE ParseFail

(* ---------------------------- clean_null ------------------------------ *)

NULL_INDICATORS ==
    {<<>>,
     <<"b", "l", "a", "n", "k">>,
     <<"b", "l", "o", "c", "k", "e", "d">>,
     <<"e", "m", "p", "t", "y">>,
     <<"i", "n", "v", "a", "l", "i", "d">>,
     <<"n", "a">>,
     <<"n", "a", "n">>,
     <<"n", "b", "s", "p">>,
     <<"n", "o", "n", "e">>,
     <<"n", "o", "t", "a", "v", "a", "i", "l", "a", "b", "l", "e">>,
     <<"n", "o", "t", "s", "e", "t">>,
     <<"n", "p">>,
     <<"n", "u", "l", "l">>,
     <<"r", "e", "m", "o", "v", "e", "d">>,
     <<"u", "n", "a", "v", "a", "i", "l", "a", "b", "l", "e">>,
     <<"u", "n", "i", "d", "e", "n", "t", "i", "f", "i", "e", "d">>,
     <<"u", "n", "k", "n", "o", "w", "n">>}

FALSEY_INDICATORS_without_zero == {<<"f", "a", "l", "s", "e">>}

FALSEY_INDICATORS == {<<"f", "a", "l", "s", "e">>, <<"0">>}

\* isinstance(x, collections.abc.Sized)
IsSized(x) == x.t \in {"str", "bytes", "list", "tuple", "set", "dict", "Series"}

\* len(x)
PyLen(x) == IF x.t = "str" THEN Len(x.v) ELSE Len(x.items)

IsIterable(x) == x.t \in {"str", "bytes", "list", "tuple", "set", "dict", "Series"}

IsListOrTuple(x) == x.t \in {"list", "tuple"}

\* isinstance(x, collections.abc.Iterable) and not isinstance(x, str);
\* iterating a dict yields its keys, which are its items here
IsIterableNonStr(x) == x.t \in {"bytes", "list", "tuple", "set", "dict", "Series"}

\* not x
IsFalsy(x) ==
    \/ x.t = "int" /\ x.v = <<"0">>
    \/ x.t = "float" /\ x.v = <<"0", ".", "0">>
    \/ x.t = "bool" /\ x.v = <<"F", "a", "l", "s", "e">>
    \/ x.t = "str" /\ x.v = <<>>
    \/ x.t \in {"bytes", "list", "tuple", "set", "dict"} /\ x.items = <<>>

\* the guard of the literal check: x[:1] in ('[','{','(') or x[1:2] in ('"',"'")
LooksLikeLiteral(x) ==
    /\ x.t = "str"
    /\ \/ Len(x.v) >= 1 /\ x.v[1] \in {"[", "{", "("}
       \/ Len(x.v) >= 2 /\ x.v[2] \in {"\"", "'"}

\* clean_null: NoneV when x is null-indicating, else x.  The recursive calls on
\* the elements and on the evaluated literal pass falsey_is_null only, so they
\* fingerprint with the default special_characters.
RECURSIVE clean_null(_, _, _)
clean_null(x, falsey_is_null, special_characters) ==
    LET x_fingerprint == fingerprint(x, special_characters)
    IN  IF x.t = "NoneType" THEN NoneV
        ELSE IF IsSized(x) /\ PyLen(x) = 0 THEN NoneV
        ELSE IF x_fingerprint \in NULL_INDICATORS THEN NoneV
        ELSE IF falsey_is_null /\ (IsFalsy(x) \/ x_fingerprint \in FALSEY_INDICATORS)
        THEN NoneV
        ELSE IF IsIterableNonStr(x)
                /\ \A k \in DOMAIN x.items :
                       clean_null(x.items[k], falsey_is_null, {}) = NoneV
        THEN NoneV
        ELSE IF LooksLikeLiteral(x) /\ literal_eval(x).ok
                /\ clean_null(literal_eval(x).val, falsey_is_null, {}) = NoneV
        THEN NoneV
        ELSE x

CaughtExceptions_syntax_only == {"SyntaxError"}

\* except Exception: every exception the evaluation raises is caught
CaughtExceptions == {"SyntaxError", "ValueError", "TypeError"}

\* The exception that leaves clean_null, "None" when it returns.  The loop over
\* the items stops at the first item that is not null-indicating; an
\* exception raised under the try (by literal_eval or by the call on the
\* evaluated literal) leaves it only when the except clause does not catch it.
RECURSIVE clean_null_raises(_, _, _)
clean_null_raises(x, falsey_is_null, special_characters) ==
    LET x_fingerprint == fingerprint(x, special_characters)
        uncaught(err) == IF err \in CaughtExceptions THEN "None" ELSE err
    IN  IF x.t = "NoneType" THEN "None"
        ELSE IF IsSized(x) /\ PyLen(x) = 0 THEN "None"
        ELSE IF x_fingerprint \in NULL_INDICATORS THEN "None"
        ELSE IF falsey_is_null /\ (IsFalsy(x) \/ x_fingerprint \in FALSEY_INDICATORS)
        THEN "None"
        ELSE IF IsIterableNonStr(x)
        THEN LET stops == {k \in DOMAIN x.items :
                            \/ clean_null_raises(x.items[k], falsey_is_null, {}) # "None"
                            \/ clean_null(x.items[k], falsey_is_null, {}) # NoneV}
             IN  IF stops = {} THEN "None"
                 ELSE clean_null_raises(
                          x.items[CHOOSE k \in stops : \A m \in stops : k <= m],
                          falsey_is_null, {})
        ELSE IF LooksLikeLiteral(x)
        THEN IF literal_eval(x).ok
             THEN uncaught(clean_null_raises(literal_eval(x).val, falsey_is_null, {}))
             ELSE uncaught(literal_eval(x).err)
        ELSE "None"

(* ----------------------- dataframe_clean_null ------------------------- *)

\* pandas notna(): neither None nor NaN
notna(x) == ~(x.t = "NoneType" \/ x = NaN)

count_notna(cells) == Cardinality({k \in DOMAIN cells : notna(cells[k])})

Column(d, j) == [i \in 1..NRows(d) |-> d.data[i][j]]

take_rows_leading_index(d, ps) ==
    [d EXCEPT !.data = [k \in DOMAIN ps |-> d.data[ps[k]]],
              !.index.vals = SubSeq(d.index.vals, 1, Len(ps))]

\* keep the rows at the given positions, with their index entries
take_rows(d, ps) ==
    [d EXCEPT !.data = [k \in DOMAIN ps |-> d.data[ps[k]]],
              !.index.vals = [k \in DOMAIN ps |-> d.index.vals[ps[k]]]]

\* keep the columns at the given positions, with their labels
take_columns(d, ps) ==
    [d EXCEPT !.columns = [k \in DOMAIN ps |-> d.columns[ps[k]]],
              !.data = [i \in 1..NRows(d) |-> [k \in DOMAIN ps |-> d.data[i][ps[k]]]]]

\* the loop that applies clean_null() to every cell and stores np.nan for None
clean_cells(d, falsey_is_null, special_characters) ==
    [d EXCEPT !.data =
        [i \in 1..NRows(d) |->
            [j \in 1..NCols(d) |->
                IF clean_null(d.data[i][j], falsey_is_null, special_characters) = NoneV
                THEN NaN ELSE d.data[i][j]]]]

\* df.dropna(axis=0, thresh=empty_row_thresh, inplace=True)
dropna_rows(d, thresh) ==
    take_rows(d, Positions(NRows(d),
                           {i \in 1..NRows(d) : count_notna(d.data[i]) >= thresh}))

\* df.dropna(axis=1, thresh=empty_column_thresh, inplace=True)
dropna_columns(d, thresh) ==
    take_columns(d, Positions(NCols(d),
                              {j \in 1..NCols(d) : count_notna(Column(d, j)) >= thresh}))

\* df.dropna(axis=0, how='all', inplace=True)
dropna_rows_all(d) ==
    take_rows(d, Positions(NRows(d),
                           {i \in 1..NRows(d) : count_notna(d.data[i]) > 0}))

prune_columns_first(d, empty_row_thresh, empty_column_thresh) ==
    dropna_rows(dropna_columns(d, empty_column_thresh), empty_row_thresh)

prune_rows_again(d, empty_row_thresh, empty_column_thresh) ==
    dropna_rows(dropna_columns(dropna_rows(d, empty_row_thresh), empty_column_thresh),
                empty_row_thresh)

\* rows are dropped first, then columns
prune(d, empty_row_thresh, empty_column_thresh) ==
    dropna_columns(dropna_rows(d, empty_row_thresh), empty_column_thresh)

needs_final_pass_never(empty_row_thresh, empty_column_thresh) == FALSE

needs_final_pass_ignoring_rows(empty_row_thresh, empty_column_thresh) ==
    empty_column_thresh > 1

\* if empty_column_thresh > 1 and empty_row_thresh != 0
needs_final_pass(empty_row_thresh, empty_column_thresh) ==
    empty_column_thresh > 1 /\ empty_row_thresh # 0

dataframe_clean_null(d, empty_row_thresh, empty_column_thresh, falsey_is_null, special_characters) ==
    LET initial_index_is_default == index_is_default(d)
        d1 == clean_cells(d, falsey_is_null, special_characters)
        d2 == prune(d1, empty_row_thresh, empty_column_thresh)
        d3 == IF needs_final_pass(empty_row_thresh, empty_column_thresh)
              THEN dropna_rows_all(d2) ELSE d2
    IN  IF initial_index_is_default THEN reset_index(d3) ELSE d3

(* ---------------------- merge_columns_by_label ------------------------ *)

TempLabel == Str(<<"t", "e", "m", "p">>)

\* '**be15492e-d01e-4ab9-9f2c-116525a26897**-label'
PlaceholderLabel ==
    Str(<<"*", "*", "b", "e", "1", "5", "4", "9", "2", "e", "-", "d", "0", "1",
          "e", "-", "4", "a", "b", "9", "-", "9", "f", "2", "c", "-", "1", "1",
          "6", "5", "2", "5", "a", "2", "6", "8", "9", "7", "*", "*", "-", "l",
          "a", "b", "e", "l">>)

\* set(df.columns[df.columns.duplicated()])
duplicate_labels(columns) ==
    {columns[j] : j \in {k \in DOMAIN columns :
                            \E m \in DOMAIN columns : m # k /\ columns[m] = columns[k]}}

\* next(i for i, x in enumerate(df.columns) if x == label), 1-based
first_iloc_of(columns, label) ==
    CHOOSE j \in DOMAIN columns :
        columns[j] = label /\ \A k \in DOMAIN columns : columns[k] = label => j <= k

temp_column_of_keeping_nulls(d, label, deduplicate_values) ==
    [i \in 1..NRows(d) |->
        LET ps == Positions(NCols(d), {j \in 1..NCols(d) : d.columns[j] = label})
            cell == [k \in DOMAIN ps |-> d.data[i][ps[k]]]
        IN  IF deduplicate_values THEN SetV(cell) ELSE ListV(cell)]

\* the loop over df[label].values: per row, the non-null values of all the
\* columns that carry the label, as a list or as a set
temp_column_of(d, label, deduplicate_values) ==
    [i \in 1..NRows(d) |->
        LET ps == Positions(NCols(d),
                            {j \in 1..NCols(d) :
                                d.columns[j] = label /\ notna(d.data[i][j])})
            cell == [k \in DOMAIN ps |-> d.data[i][ps[k]]]
        IN  IF deduplicate_values THEN SetV(cell) ELSE ListV(cell)]

insert_column_last(d, first_iloc, label, column) ==
    [d EXCEPT !.columns = Append(d.columns, label),
              !.data = [i \in 1..NRows(d) |-> Append(d.data[i], column[i])]]

\* df.insert(first_iloc, 'temp', temp_column)
insert_column(d, first_iloc, label, column) ==
    LET at(seq, x) == SubSeq(seq, 1, first_iloc - 1) \o <<x>>
                      \o SubSeq(seq, first_iloc, Len(seq))
    IN  [d EXCEPT !.columns = at(d.columns, label),
                  !.data = [i \in 1..NRows(d) |-> at(d.data[i], column[i])]]

\* df.drop(columns=label, inplace=True): every column that carries the label
drop_columns(d, label) ==
    take_columns(d, Positions(NCols(d), {j \in 1..NCols(d) : d.columns[j] # label}))

\* the body of the loop for one duplicated label; next() raises StopIteration
\* when an earlier iteration has dropped every column that carried the label
merge_label(d, label, deduplicate_values) ==
    LET first_iloc == first_iloc_of(d.columns, label)
        temp_column == temp_column_of(d, label, deduplicate_values)
    IN  IF \A j \in DOMAIN d.columns : d.columns[j] # label
        THEN [df |-> d, result |-> "StopIteration"]
        ELSE IF \E j \in DOMAIN d.columns : d.columns[j] = TempLabel
        THEN [df |-> d, result |-> "ValueError"]
        ELSE
            LET d1 == insert_column(d, first_iloc, TempLabel, temp_column)
                d2 == IF label = NoneV
                      THEN drop_columns(
                               [d1 EXCEPT !.columns =
                                   [j \in DOMAIN d1.columns |->
                                       IF d1.columns[j] = NoneV
                                       THEN PlaceholderLabel ELSE d1.columns[j]]],
                               PlaceholderLabel)
                      ELSE drop_columns(d1, label)
            IN  IF first_iloc > NCols(d2)
                THEN [df |-> d2, result |-> "IndexError"]
                ELSE [df |-> [d2 EXCEPT !.columns[first_iloc] = label],
                      result |-> "None"]

\* the loop over duplicate_labels in the order the set is iterated in
RECURSIVE merge_labels(_, _, _)
merge_labels(d, order, deduplicate_values) ==
    IF order = <<>> THEN [df |-> d, result |-> "None"]
    ELSE LET r == merge_label(d, Head(order), deduplicate_values)
         IN  IF r.result # "None" THEN r
             ELSE merge_labels(r.df, Tail(order), deduplicate_values)

\* the orders a set of labels can be iterated in
Orders(labels) ==
    {o \in [1..Cardinality(labels) -> labels] :
        \A a, b \in DOMAIN o : a # b => o[a] # o[b]}

\* The whole function, for one iteration order of the set of duplicated
\* labels.  Index.duplicated() hashes the labels: a Series object left as a
\* label by find_column_labels is unhashable and the call raises TypeError.
merge_columns_by_label(d, deduplicate_values, order) ==
    IF \E j \in DOMAIN d.columns : d.columns[j].t = "Series"
    THEN [df |-> d, result |-> "TypeError"]
    ELSE merge_labels(d, order, deduplicate_values)

(* --------------------------- map_labels ------------------------------- *)

\* the text '-' that stands for a label without a mapping
Unmapped == Str(<<"-">>)

map_labels_none_for_unmapped(labels, fingerprint_map, special_characters, return_unmapped) ==
    LET found(x) == fingerprint(x, special_characters) \in DOMAIN fingerprint_map
        mapped_labels == [i \in DOMAIN labels |->
                             IF found(labels[i])
                             THEN fingerprint_map[fingerprint(labels[i], special_characters)]
                             ELSE NoneV]
        unmapped_labels == SelectSeq(labels, LAMBDA x : ~found(x))
    IN  IF return_unmapped
        THEN TupleV(<<ListV(mapped_labels), SetV(unmapped_labels)>>)
        ELSE ListV(mapped_labels)

\* The loop over labels: the mapped value of the label's fingerprint, or '-'
\* and the label itself into the set of unmapped labels.  fingerprint_map is a
\* function from fingerprints to values.
map_labels(labels, fingerprint_map, special_characters, return_unmapped) ==
    LET found(x) == fingerprint(x, special_characters) \in DOMAIN fingerprint_map
        mapped_labels == [i \in DOMAIN labels |->
                             IF found(labels[i])
                             THEN fingerprint_map[fingerprint(labels[i], special_characters)]
                             ELSE Unmapped]
        unmapped_labels == SelectSeq(labels, LAMBDA x : ~found(x))
    IN  IF return_unmapped
        THEN TupleV(<<ListV(mapped_labels), SetV(unmapped_labels)>>)
        ELSE ListV(mapped_labels)

(* ---------------------- rename_duplicate_labels ----------------------- *)

\* the generators a caller passes: append_count, and the generator of the
\* tests, (str(i) + x for i in itertools.count())
RenameGenerators == {"append_count", "count_prefix"}

append_count_from_zero(x, i) == Str(x.v \o <<"_">> \o IntStr(i - 1))

\* the i-th value append_count(x) yields: x + '_' + str(i)
append_count(x, i) == Str(x.v \o <<"_">> \o IntStr(i))

\* the i-th value next() returns from the generator made for label x
next_of(rename_generator, x, i) ==
    IF rename_generator = "append_count"
    THEN append_count(x, i)
    ELSE Str(IntStr(i - 1) \o x.v)

\* the first loop: the labels met again after they were seen
RECURSIVE duplicates_of(_, _, _)
duplicates_of(labels, seen, duplicates) ==
    IF labels = <<>> THEN duplicates
    ELSE LET x == PyKey(Head(labels))
         IN  IF x \in seen
             THEN duplicates_of(Tail(labels), seen, duplicates \cup {x})
             ELSE duplicates_of(Tail(labels), seen \cup {x}, duplicates)

\* The second loop: `taken` counts the values already taken from each label's
\* generator.  Adding text to a label that is not a text raises TypeError at
\* the generator's first next().
RECURSIVE rename_loop(_, _, _, _, _)
rename_loop(labels, rename_generator, duplicates, taken, mapped_labels) ==
    IF labels = <<>> THEN [mapped_labels |-> mapped_labels, result |-> "None"]
    ELSE LET x == Head(labels)
             k == PyKey(x)
         IN  IF k \notin duplicates
             THEN rename_loop(Tail(labels), rename_generator, duplicates, taken,
                              Append(mapped_labels, x))
             ELSE IF x.t # "str"
             THEN [mapped_labels |-> mapped_labels, result |-> "TypeError"]
             ELSE rename_loop(Tail(labels), rename_generator, duplicates,
                              [taken EXCEPT ![k] = @ + 1],
                              Append(mapped_labels,
                                     next_of(rename_generator, x, taken[k] + 1)))

rename_duplicate_labels(labels, rename_generator) ==
    LET duplicates == duplicates_of(labels, {}, {})
    IN  rename_loop(labels, rename_generator, duplicates, [k \in duplicates |-> 0], <<>>)

(* ----------------------- calls and their inputs ---------------------- *)

NoCall ==
    [op |-> "none", label_fingerprints |-> {}, label_match_thresh |-> 0,
     special_characters |-> {}, empty_row_thresh |-> 0, empty_column_thresh |-> 0,
     falsey_is_null |-> FALSE, deduplicate_values |-> FALSE, run |-> 0,
     fingerprint_map |-> <<>>, return_unmapped |-> FALSE, rename_generator |-> ""]

Thresholds == 0..MaxThresh

Shapes == {rc \in (0..MaxCells) \X (1..MaxCells) : rc[1] * rc[2] <= MaxCells}

\* the tables of at most n cells; labels[c]: the label sequences for c
\* columns; indexes[r]: the row indexes for r rows
TablesWithin(n, cells, labels, indexes) ==
    UNION {{[index |-> ix, columns |-> cols, data |-> dat] :
                ix \in indexes[rc[1]],
                cols \in labels[rc[2]],
                dat \in [1..rc[1] -> [1..rc[2] -> cells]]} :
           rc \in {s \in Shapes : s[1] * s[2] <= n}}

Tables(cells, labels, indexes) == TablesWithin(MaxCells, cells, labels, indexes)

\* row indexes a caller's table may carry: the default RangeIndex, the same
\* values under a name, and a custom index with duplicate values
Indexes[r \in 0..MaxCells] ==
    {RangeIndex(r),
     [vals |-> [i \in 1..r |-> i - 1], name |-> "id"],
     [vals |-> [i \in 1..r |-> 7 + (i % 2)], name |-> NoName]}

\* header-like and junk cells; "E-m" fingerprints to "em", or to "e-m" when
\* "-" is a special character
HeaderCells == {Str(<<"E", "-", "m">>), Str(<<"x">>)}

\* column labels a caller's table may carry: the default 0..c-1, a
\* header-like label repeated, and a header-like label followed by a repeated
\* plain one
HeaderLabels[c \in 1..MaxCells] ==
    {[j \in 1..c |-> IntV(j - 1)],
     [j \in 1..c |-> Str(<<"E", "-", "m">>)],
     [j \in 1..c |-> IF j = 1 THEN Str(<<"E", "-", "m">>) ELSE Str(<<"c">>)]}

FingerprintSets == {{<<"e", "m">>}, {<<"e", "-", "m">>, <<"x">>}}

SpecialCharacterSets == {{}, {"-"}}

(* ------------------------------ actions ------------------------------ *)

TypeOK ==
    /\ result \in {"", "None", "ValueError", "IndexError", "TypeError", "StopIteration"}
    /\ call.op \in {"none", "find_column_labels", "merge_columns_by_label",
                    "dataframe_clean_null", "clean_null", "fingerprint",
                    "fingerprint_again", "map_labels", "rename_duplicate_labels"}
    /\ log \in BOOLEAN

\* One call of find_column_labels on the current table.  In a logged run the
\* table is fresh, `pre` keeps the table as it was at entry and `call` the
\* arguments, for the properties; an unlogged run may call again and again and
\* keeps the operation's name only.
FindColumnLabels ==
    /\ log => call.op = "none"
    /\ \E fps \in FingerprintSets, thresh \in Thresholds,
          sc \in SpecialCharacterSets,
          index_raises \in IF HasDuplicates(df.columns) THEN BOOLEAN ELSE {FALSE} :
        LET r == find_column_labels(df, fps, thresh, sc, index_raises)
        IN  /\ df' = r.df
            /\ result' = r.result
            /\ pre' = IF log THEN df ELSE r.df
            /\ call' = IF log
                       THEN [NoCall EXCEPT !.op = "find_column_labels",
                                           !.label_fingerprints = fps,
                                           !.label_match_thresh = thresh,
                                           !.special_characters = sc]
                       ELSE [NoCall EXCEPT !.op = "find_column_labels"]
    /\ log' = log
    /\ UNCHANGED <<value, cleaned>>

InitFCL ==
    /\ df \in Tables(HeaderCells, HeaderLabels, Indexes)
    /\ pre = df
    /\ call = NoCall
    /\ result = ""
    /\ log = TRUE
    /\ value = NoneV
    /\ cleaned = NoneV

NextFCL == FindColumnLabels

\* cells of a table to clean: "0" is null-indicating only when falsey_is_null,
\* "N/A" unless "/" is a special character
NullableCells == {Str(<<"0">>), Str(<<"N", "/", "A">>)}

\* the default column labels 0..c-1
CleanLabels[c \in 1..MaxCells] == {[j \in 1..c |-> IntV(j - 1)]}

\* the default RangeIndex, and a custom named index with duplicate values
CleanIndexes[r \in 0..MaxCells] ==
    {RangeIndex(r), [vals |-> [i \in 1..r |-> 7 + (i % 2)], name |-> "id"]}

CleanSpecialCharacterSets == {{}, {"/"}}

\* One call of dataframe_clean_null on the current table.
DataframeCleanNull ==
    /\ log => call.op = "none"
    /\ \E rt \in Thresholds, ct \in Thresholds, falsey \in BOOLEAN,
          sc \in CleanSpecialCharacterSets :
        /\ df' = dataframe_clean_null(df, rt, ct, falsey, sc)
        /\ result' = "None"
        /\ pre' = IF log THEN df ELSE df'
        /\ call' = IF log
                   THEN [NoCall EXCEPT !.op = "dataframe_clean_null",
                                       !.empty_row_thresh = rt,
                                       !.empty_column_thresh = ct,
                                       !.falsey_is_null = falsey,
                                       !.special_characters = sc,
                                       !.run = 1]
                   ELSE [NoCall EXCEPT !.op = "dataframe_clean_null"]
    /\ log' = log
    /\ UNCHANGED <<value, cleaned>>

\* The logged call of dataframe_clean_null made a second time in succession,
\* with the same arguments, on the table the first run left.
RepeatCleanNull ==
    /\ log /\ call.op = "dataframe_clean_null" /\ call.run = 1
    /\ df' = dataframe_clean_null(df, call.empty_row_thresh,
                                  call.empty_column_thresh,
                                  call.falsey_is_null, call.special_characters)
    /\ result' = "None"
    /\ pre' = df
    /\ call' = [call EXCEPT !.run = 2]
    /\ log' = log
    /\ UNCHANGED <<value, cleaned>>

InitDCN ==
    /\ df \in Tables(NullableCells, CleanLabels, CleanIndexes)
    /\ pre = df
    /\ call = NoCall
    /\ result = ""
    /\ log = TRUE
    /\ value = NoneV
    /\ cleaned = NoneV

NextDCN == DataframeCleanNull \/ RepeatCleanNull

\* dataframe_clean_null applied to every table of the bounded family, once
\* and then once more with the same arguments
SpecDCN == InitDCN /\ [][NextDCN]_vars

\* find_column_labels applied once to every table of the bounded family
SpecFCL == InitFCL /\ [][NextFCL]_vars

(* ------------------------- calls of clean_null ------------------------ *)

\* the sequences of 1..MaxItems elements of S
Seqs(S) == UNION {[1..n -> S] : n \in 1..MaxItems}

\* elements of the collections: null-indicating, falsey and plain ones
Elements ==
    {NoneV, Str(<<"N", "/", "A">>), Str(<<"F", "a", "l", "s", "e">>), IntV(0),
     Str(<<"x">>)}

Scalars ==
    Elements \cup
    {NaN, IntV(5), FloatV(<<"0">>, <<"0">>), BoolV(TRUE), BoolV(FALSE), Str(<<"0">>),
     Str(<<>>), Str(<<" ">>), Str(<<"n">>), Str(<<"a">>),
     Str(<<"U", "n", "k", "n", "o", "w", "n">>), Str(<<"'", "0", "'">>)}

\* lists, tuples and sets of elements; a set is taken in every order of its
\* elements, str() of a set depending on the hashes
Collections ==
    {ListV(q) : q \in Seqs(Elements)} \cup {TupleV(q) : q \in Seqs(Elements)}
        \cup {SetV(q) : q \in Seqs(Elements)}

DictKeys == {NoneV, Str(<<"N", "/", "A">>), Str(<<"n">>)}

DictValues == {Str(<<"a">>), Str(<<"b">>)}

\* dicts of 1..MaxItems distinct keys
Dicts ==
    UNION {{DictV(ks, vs) : vs \in [1..Len(ks) -> DictValues]} :
           ks \in {q \in Seqs(DictKeys) : ~HasDuplicates(q)}}

\* a collection inside a list, after a None
Nested == {ListV(<<NoneV, c>>) : c \in Collections \cup Dicts}

\* texts that look like a literal and do not evaluate: a literal without its
\* last character, a set of a list (unhashable), names that are no literal
Malformed ==
    {Str(SubSeq(c.v, 1, Len(c.v) - 1)) : c \in Collections \cup Dicts}
        \cup {Str(SetV(<<ListV(<<Str(<<"N", "/", "A">>), NoneV>>)>>).v),
              Str(ListV(<<NoneV, NaN>>).v),
              Str(<<"[", "x", "]">>)}

\* the texts of literals: repr() of the collections, and prefixed texts
Literals ==
    {Str(c.v) : c \in Collections \cup Dicts \cup Nested}
        \cup {Str(<<"u">> \o Repr(Str(<<"N", "/", "A">>))), Str(<<"b">> \o Repr(Str(<<"x">>)))}

\* one value alone in a list, a tuple or, when hashable, a set
Singles ==
    LET inner == Scalars \cup Collections \cup Dicts \cup Malformed \cup Literals
    IN  {ListV(<<e>>) : e \in inner} \cup {TupleV(<<e>>) : e \in inner}
            \cup {SetV(<<e>>) : e \in {i \in inner : Hashable(i)}}

Values ==
    Scalars \cup Collections \cup Dicts \cup Nested \cup Malformed \cup Literals
        \cup Singles

\* One call clean_null(value, falsey_is_null, special_characters).
CleanNull ==
    /\ call.op = "none"
    /\ \E falsey \in BOOLEAN, sc \in CleanSpecialCharacterSets :
        /\ cleaned' = clean_null(value, falsey, sc)
        /\ result' = clean_null_raises(value, falsey, sc)
        /\ call' = [NoCall EXCEPT !.op = "clean_null",
                                  !.falsey_is_null = falsey,
                                  !.special_characters = sc]
    /\ UNCHANGED <<df, pre, log, value>>

InitCN ==
    /\ value \in Values
    /\ cleaned = NoneV
    /\ df = [index |-> RangeIndex(0), columns |-> <<>>, data |-> <<>>]
    /\ pre = df
    /\ call = NoCall
    /\ result = ""
    /\ log = TRUE

NextCN == CleanNull

\* clean_null applied once to every value of the bounded family
SpecCN == InitCN /\ [][NextCN]_vars

(* ------------------ calls of merge_columns_by_label ------------------- *)

\* One call of merge_columns_by_label on the current table.
MergeColumnsByLabel ==
    /\ log => call.op = "none"
    /\ \E dedup \in BOOLEAN, order \in Orders(duplicate_labels(df.columns)) :
        LET r == merge_columns_by_label(df, dedup, order)
        IN  /\ df' = r.df
            /\ result' = r.result
            /\ pre' = IF log THEN df ELSE r.df
            /\ call' = IF log
                       THEN [NoCall EXCEPT !.op = "merge_columns_by_label",
                                           !.deduplicate_values = dedup]
                       ELSE [NoCall EXCEPT !.op = "merge_columns_by_label"]
    /\ log' = log
    /\ UNCHANGED <<value, cleaned>>

\* cells of a table that goes through the three functions in any order
MixedCells == {Str(<<"E", "-", "m">>), Str(<<"N", "/", "A">>)}

MixedLabels[c \in 1..MaxCells] ==
    HeaderLabels[c] \cup {[j \in 1..c |-> NoneV],
                          [j \in 1..c |-> IF j = 1 THEN TempLabel ELSE Str(<<"c">>)]}

\* tables of at most MaxCells - 2 cells
SmallTables(cells, labels, indexes) ==
    TablesWithin(MaxCells - 2, cells, labels, indexes)

Init ==
    /\ df \in SmallTables(MixedCells, MixedLabels, CleanIndexes)
    /\ pre = df
    /\ call = NoCall
    /\ result = ""
    /\ log = FALSE
    /\ value = NoneV
    /\ cleaned = NoneV

Next == FindColumnLabels \/ MergeColumnsByLabel \/ DataframeCleanNull

\* any sequence of calls of the three functions on a table
Spec == Init /\ [][Next]_vars

\* cells of a table whose columns are merged: two texts and the two absence
\* markers
MergeCells == {Str(<<"a">>), Str(<<"b">>), NoneV, NaN}

\* column labels of a table whose columns are merged: those above and two
\* labels in alternation
MergeLabels[c \in 1..MaxCells] ==
    MixedLabels[c] \cup {[j \in 1..c |-> IF j % 2 = 1 THEN Str(<<"k">>) ELSE Str(<<"c">>)]}

InitMCL ==
    /\ df \in SmallTables(MergeCells, MergeLabels, CleanIndexes)
    /\ pre = df
    /\ call = NoCall
    /\ result = ""
    /\ log = TRUE
    /\ value = NoneV
    /\ cleaned = NoneV

NextMCL == MergeColumnsByLabel

\* merge_columns_by_label applied once to every table of the bounded family
SpecMCL == InitMCL /\ [][NextMCL]_vars

\* column labels of a table that carries the placeholder label: None and the
\* placeholder in alternation, and the placeholder followed by None
PlaceholderLabels[c \in 1..MaxCells] ==
    {[j \in 1..c |-> IF j % 2 = 1 THEN NoneV ELSE PlaceholderLabel],
     [j \in 1..c |-> IF j = 1 THEN PlaceholderLabel ELSE NoneV]}

InitPH ==
    /\ df \in SmallTables(MergeCells, PlaceholderLabels, CleanIndexes)
    /\ pre = df
    /\ call = NoCall
    /\ result = ""
    /\ log = TRUE
    /\ value = NoneV
    /\ cleaned = NoneV

NextPH == MergeColumnsByLabel

\* merge_columns_by_label applied once to every table of the bounded family
\* whose labels are None and the placeholder
SpecPH == InitPH /\ [][NextPH]_vars

\* the characters of the texts given to fingerprint: a capital, a small
\* letter, a digit, two punctuation marks and a blank
FingerprintChars == {"A", "b", "3", "-", "_", " "}

\* the texts of at most MaxText characters, and the values that are not texts
FingerprintInputs ==
    {Str(<<>>)} \cup {Str(s) : s \in UNION {[1..n -> FingerprintChars] : n \in 1..MaxText}}
        \cup Scalars

\* special_characters: none, a mark, two marks, a capital with a mark
FingerprintSpecialCharacterSets == {{}, {"-"}, {"-", "_"}, {"A", "_"}}

\* One call fingerprint(value, special_characters).
Fingerprint ==
    /\ call.op = "none"
    /\ \E sc \in FingerprintSpecialCharacterSets :
        /\ cleaned' = Str(fingerprint(value, sc))
        /\ call' = [NoCall EXCEPT !.op = "fingerprint", !.special_characters = sc]
    /\ result' = "None"
    /\ UNCHANGED <<df, pre, log, value>>

\* fingerprint applied to the result of the call before, with the same
\* special_characters.
FingerprintAgain ==
    /\ call.op = "fingerprint"
    /\ cleaned' = Str(fingerprint(cleaned, call.special_characters))
    /\ call' = [call EXCEPT !.op = "fingerprint_again"]
    /\ UNCHANGED <<df, pre, log, value, result>>

InitFP ==
    /\ value \in FingerprintInputs
    /\ cleaned = NoneV
    /\ df = [index |-> RangeIndex(0), columns |-> <<>>, data |-> <<>>]
    /\ pre = df
    /\ call = NoCall
    /\ result = ""
    /\ log = TRUE

NextFP == Fingerprint \/ FingerprintAgain

\* fingerprint applied to every input of the bounded family, and once more to
\* its result
SpecFP == InitFP /\ [][NextFP]_vars

\* labels given to map_labels: texts whose fingerprints coincide, a number,
\* the empty text and a text of one mark
MapLabels ==
    {Str(<<"A">>), Str(<<"a", "_">>), Str(<<"b">>), Str(<<>>), IntV(1), Str(<<"#">>)}

\* the lists of at most MaxText labels
LabelLists(S) == {<<>>} \cup UNION {[1..n -> S] : n \in 1..MaxText}

\* fingerprint_map: empty, two keys of letters and digits, and one with a key
\* that holds a special character and the empty key
FingerprintMaps ==
    {<<>>,
     (<<"a">> :> Str(<<"x">>)) @@ (<<"1">> :> Str(<<"o", "n", "e">>)),
     (<<"a">> :> Str(<<"x">>)) @@ (<<"#">> :> Str(<<"y">>)) @@ (<<>> :> Str(<<"z">>))}

MapSpecialCharacterSets == {{}, {"#"}}

\* One call map_labels(value, fingerprint_map, special_characters,
\* return_unmapped).
MapLabelsCall ==
    /\ call.op = "none"
    /\ \E fm \in FingerprintMaps, sc \in MapSpecialCharacterSets, ru \in BOOLEAN :
        /\ cleaned' = map_labels(value.items, fm, sc, ru)
        /\ call' = [NoCall EXCEPT !.op = "map_labels", !.fingerprint_map = fm,
                                  !.special_characters = sc, !.return_unmapped = ru]
    /\ result' = "None"
    /\ UNCHANGED <<df, pre, log, value>>

InitML ==
    /\ value \in {ListV(l) : l \in LabelLists(MapLabels)}
    /\ cleaned = NoneV
    /\ df = [index |-> RangeIndex(0), columns |-> <<>>, data |-> <<>>]
    /\ pre = df
    /\ call = NoCall
    /\ result = ""
    /\ log = TRUE

NextML == MapLabelsCall

\* map_labels applied once to every list of labels of the bounded family
SpecML == InitML /\ [][NextML]_vars

\* labels given to rename_duplicate_labels: two texts, a text that has the
\* form of a generated name, and a number
RenameLabels == {Str(<<"a">>), Str(<<"b">>), Str(<<"a", "_", "1">>), IntV(1)}

\* One call rename_duplicate_labels(value, rename_generator).
RenameDuplicateLabels ==
    /\ call.op = "none"
    /\ \E g \in RenameGenerators :
        LET r == rename_duplicate_labels(value.items, g)
        IN  /\ cleaned' = IF r.result = "None" THEN ListV(r.mapped_labels) ELSE NoneV
            /\ result' = r.result
            /\ call' = [NoCall EXCEPT !.op = "rename_duplicate_labels",
                                      !.rename_generator = g]
    /\ UNCHANGED <<df, pre, log, value>>

InitRDL ==
    /\ value \in {ListV(l) : l \in LabelLists(RenameLabels)}
    /\ cleaned = NoneV
    /\ df = [index |-> RangeIndex(0), columns |-> <<>>, data |-> <<>>]
    /\ pre = df
    /\ call = NoCall
    /\ result = ""
    /\ log = TRUE

NextRDL == RenameDuplicateLabels

\* rename_duplicate_labels applied once to every list of labels of the
\* bounded family
SpecRDL == InitRDL /\ [][NextRDL]_vars

(* ------------------- properties of find_column_labels ----------------- *)

FCLCalled == log /\ call.op = "find_column_labels"

\* how many of the cells have their fingerprint among the caller's fingerprints
MatchCount(cells) ==
    Cardinality({j \in DOMAIN cells :
        fingerprint(cells[j], call.special_characters) \in call.label_fingerprints})

FastPath == MatchCount(pre.columns) >= call.label_match_thresh

HeaderRows == {i \in 1..NRows(pre) : MatchCount(pre.data[i]) >= call.label_match_thresh}

\* the position (1-based) of the first qualifying row of the table at entry
FirstHeaderRow == CHOOSE i \in HeaderRows : \A k \in HeaderRows : i <= k

HeaderFound == FCLCalled /\ result = "None" /\ ~FastPath

PreIndexIsDefault ==
    /\ pre.index.name = NoName
    /\ \A i \in 1..NRows(pre) : pre.index.vals[i] = i - 1

\* C1 (as claimed): when find_column_labels raises IndexError the table is
\* exactly as it was received: same cells, column labels and row index, also
\* for a table that came with a non-default row index.
C1_NotFoundLeavesTable ==
    (FCLCalled /\ result = "IndexError") => df = pre

\* C2: with label_match_thresh = 0 the call fails with ValueError and the
\* table (cells, column labels, row index) is unchanged, also when the column
\* labels already match the fingerprints.
C2_ZeroThreshIsValueError ==
    (FCLCalled /\ call.label_match_thresh = 0) =>
        (result = "ValueError" /\ df = pre)

C2_Witness ==
    /\ FCLCalled /\ call.label_match_thresh = 0
    /\ result = "ValueError"
    /\ MatchCount(pre.columns) >= 2
    /\ HeaderRows # {}
    /\ ~PreIndexIsDefault

\* C5: on success without the fast path the header row is the first row, top
\* to bottom, with at least label_match_thresh matching cells; it and the rows
\* before it are removed and the rows after it stay, in order and unchanged.
C5_FirstMatchingRowIsHeader ==
    HeaderFound =>
        /\ HeaderRows # {}
        /\ df.data = SubSeq(pre.data, FirstHeaderRow + 1, NRows(pre))

C5_Witness ==
    /\ HeaderFound
    /\ FirstHeaderRow = 2
    /\ \E i \in HeaderRows : i > FirstHeaderRow
    /\ NRows(df) = 1
    /\ MatchCount(df.data[1]) >= call.label_match_thresh

\* C6 (as claimed): on success by a header row every new column label is the
\* header row's cell at the same position, original text kept, also when the
\* column labels at entry contain duplicates.
C6_LabelsAreHeaderCells ==
    HeaderFound =>
        /\ NCols(df) = NCols(pre)
        /\ \A j \in 1..NCols(pre) : df.columns[j] = pre.data[FirstHeaderRow][j]

\* C7: when at least label_match_thresh (a valid threshold, not 0) of the
\* current column labels fingerprint into label_fingerprints, the call returns
\* and the table is unchanged, even if some row qualifies as a header row.
C7_FastPathLeavesTable ==
    (FCLCalled /\ call.label_match_thresh # 0 /\ FastPath) =>
        (result = "None" /\ df = pre)

C7_Witness ==
    /\ FCLCalled /\ call.label_match_thresh = 2 /\ FastPath
    /\ MatchCount(pre.columns) = 2
    /\ HeaderRows # {}
    /\ ~PreIndexIsDefault
    /\ result = "None"

\* C8: after a header row is found at position p, a default row index at
\* entry (0..n-1, unnamed) gives the index 0..m-1; any other index gives the
\* i-th surviving row the entry index value of position p+1+i (and the
\* index keeps its name), duplicates included.
C8_IndexAfterHeader ==
    HeaderFound =>
        IF PreIndexIsDefault
        THEN df.index = [vals |-> [i \in 1..NRows(df) |-> i - 1], name |-> NoName]
        ELSE /\ df.index.name = pre.index.name
             /\ Len(df.index.vals) = NRows(pre) - FirstHeaderRow
             /\ \A i \in 1..Len(df.index.vals) :
                    df.index.vals[i] = pre.index.vals[FirstHeaderRow + i]

C8_Witness ==
    /\ HeaderFound
    /\ pre.index.name = NoName
    /\ HasDuplicates(pre.index.vals)
    /\ FirstHeaderRow = 1
    /\ NRows(df) = 2
    /\ df.index.vals = <<7, 8>>

(* ------------------ properties of dataframe_clean_null ---------------- *)

DCNCalled == log /\ call.op = "dataframe_clean_null"

\* the cell is null-indicating under the call's settings
IsNullCell(x) ==
    clean_null(x, call.falsey_is_null, call.special_characters) = NoneV

IsAbsent(x) == x.t = "NoneType" \/ x = NaN

\* populated cells of row i of the table at entry, once its cells are cleaned
Populated(i) == Cardinality({j \in 1..NCols(pre) : ~IsNullCell(pre.data[i][j])})

\* the rows of the table at entry that the row-dropping step keeps
RowsKept == {i \in 1..NRows(pre) : Populated(i) >= call.empty_row_thresh}

\* populated cells of column j counted over the rows kept by the row step
PopulatedInKept(j) == Cardinality({i \in RowsKept : ~IsNullCell(pre.data[i][j])})

\* populated cells of column j counted over all the rows at entry
PopulatedInAll(j) ==
    Cardinality({i \in 1..NRows(pre) : ~IsNullCell(pre.data[i][j])})

ColumnsKept == {j \in 1..NCols(pre) : PopulatedInKept(j) >= call.empty_column_thresh}

\* C3 (as claimed): a second run of dataframe_clean_null with the same
\* arguments leaves the table (cells, column labels, row index) as the first
\* run left it, for every table and every choice of the arguments.
C3_TwiceSameAsOnce ==
    (DCNCalled /\ call.run = 2) => df = pre

\* C3 (amended): the second run changes nothing whenever empty_row_thresh <= 1
\* or empty_column_thresh <= 1.
C3_TwiceSameAsOnceLowThresh ==
    (DCNCalled /\ call.run = 2
        /\ (call.empty_row_thresh <= 1 \/ call.empty_column_thresh <= 1)) =>
        df = pre

C3_Witness ==
    /\ DCNCalled /\ call.run = 2
    /\ call.empty_row_thresh = 1 /\ call.empty_column_thresh = 2
    /\ NRows(df) = 3 /\ NCols(df) = 2
    /\ \E i \in 1..NRows(df) : \E j \in 1..NCols(df) : df.data[i][j] = NaN
    /\ df = pre

\* C4: after dataframe_clean_null with empty_row_thresh # 0 (thresholds are
\* non-negative) no row of the table has all its cells absent, for every
\* empty_column_thresh.
C4_NoAllAbsentRow ==
    (DCNCalled /\ call.empty_row_thresh # 0) =>
        \A i \in 1..NRows(df) : \E j \in 1..NCols(df) : ~IsAbsent(df.data[i][j])

C4_Witness ==
    /\ DCNCalled /\ call.run = 1
    /\ call.empty_row_thresh = 1 /\ call.empty_column_thresh = 2
    /\ NRows(df) >= 1 /\ NCols(df) >= 1
    /\ NRows(df) < Cardinality(RowsKept)

\* C10: a column is dropped exactly when its count of non-absent cells over
\* the rows that remain after the row-dropping step is below
\* empty_column_thresh: the labels left are those of the other columns.
C10_ColumnsCountedAfterRowDrop ==
    DCNCalled =>
        LET ps == Positions(NCols(pre), ColumnsKept)
        IN  df.columns = [k \in DOMAIN ps |-> pre.columns[ps[k]]]

C10_Witness ==
    /\ DCNCalled /\ call.run = 1
    /\ \E j \in 1..NCols(pre) :
          /\ PopulatedInAll(j) >= call.empty_column_thresh
          /\ j \notin ColumnsKept
    /\ ColumnsKept # {}
    /\ NCols(df) = Cardinality(ColumnsKept)
    /\ NRows(df) >= 1

\* populated cells of row i counted over the columns kept by the column step
PopulatedAfter(i) ==
    Cardinality({j \in ColumnsKept : ~IsNullCell(pre.data[i][j])})

\* the rows that pass the row step and fall below empty_row_thresh once the
\* columns are pruned
Squeezed == {i \in RowsKept : PopulatedAfter(i) < call.empty_row_thresh}

\* the table at entry with every null-indicating cell replaced by NaN
Cleaned == clean_cells(pre, call.falsey_is_null, call.special_characters)

\* the rows of the cleaned table c with at least empty_row_thresh populated cells
RowsPassing(c) ==
    {i \in 1..NRows(c) : count_notna(c.data[i]) >= call.empty_row_thresh}

\* the columns of c with at least empty_column_thresh populated cells in rows
ColumnsPassing(c, rows) ==
    {j \in 1..NCols(c) :
        Cardinality({i \in rows : notna(c.data[i][j])}) >= call.empty_column_thresh}

\* the rows the claims say are left: those that pass the row step, except the
\* ones that fall below empty_row_thresh over the columns cols and have no
\* populated cell left there
SurvivorsOf(c, rows, cols) ==
    {i \in rows :
        LET after == Cardinality({j \in cols : notna(c.data[i][j])})
        IN  ~(after < call.empty_row_thresh /\ after = 0)}

Survivors ==
    LET c == Cleaned
        rows == RowsPassing(c)
    IN  SurvivorsOf(c, rows, ColumnsPassing(c, rows))

\* C11: a row with at least empty_row_thresh populated cells before the
\* column step and fewer after it is still in the table after the column step;
\* it is removed, by the final pass, only if it has no populated cell left (and
\* then empty_column_thresh > 1 and empty_row_thresh # 0), and it stays in the
\* result when it keeps at least one populated cell.
C11_SqueezedRowGoesOnlyInFinalPass ==
    DCNCalled =>
        LET c == Cleaned
            rows == RowsPassing(c)
            cols == ColumnsPassing(c, rows)
            left == SurvivorsOf(c, rows, cols)
            rs == Positions(NRows(pre), left)
            cs == Positions(NCols(pre), cols)
        IN  /\ NRows(prune(c, call.empty_row_thresh, call.empty_column_thresh))
                   = Cardinality(rows)
            /\ left # rows =>
                   (call.empty_column_thresh > 1 /\ call.empty_row_thresh # 0)
            /\ df.data = [k \in DOMAIN rs |->
                             [m \in DOMAIN cs |-> c.data[rs[k]][cs[m]]]]

C11_Witness ==
    /\ DCNCalled /\ call.run = 1
    /\ call.empty_row_thresh = 2 /\ call.empty_column_thresh = 2
    /\ \E i \in Squeezed : PopulatedAfter(i) = 1
    /\ NRows(df) = 2 /\ NCols(df) = 1
    /\ \A i \in 1..NRows(df) : count_notna(df.data[i]) = 1

\* C12: with empty_row_thresh = 0 no row is removed (the rows and their index
\* entries are those at entry, all-absent rows included), and with
\* empty_column_thresh = 0 no column is removed (the column labels are those at
\* entry, all-absent columns included).
C12_ZeroThreshDisablesDropping ==
    DCNCalled =>
        /\ call.empty_row_thresh = 0 =>
               (NRows(df) = NRows(pre) /\ df.index.vals = pre.index.vals)
        /\ call.empty_column_thresh = 0 => df.columns = pre.columns

C12_Witness ==
    /\ DCNCalled /\ call.run = 1
    /\ call.empty_row_thresh = 0 /\ call.empty_column_thresh = 0
    /\ NRows(df) = NRows(pre) /\ df.columns = pre.columns
    /\ \E i \in 1..NRows(df) : count_notna(df.data[i]) = 0
    /\ \E j \in 1..NCols(df) : count_notna(Column(df, j)) = 0
    /\ \E i \in 1..NRows(df) : count_notna(df.data[i]) > 0

\* C13: after dataframe_clean_null a row index that was the default one at
\* entry is 0..m-1 over the surviving rows; any other index keeps its name, and
\* the surviving rows carry the index values they had at entry, in their order
\* at entry.
C13_IndexAfterCleaning ==
    DCNCalled =>
        LET rs == Positions(NRows(pre), Survivors)
        IN  IF index_is_default(pre)
            THEN df.index = [vals |-> [k \in 1..NRows(df) |-> k - 1], name |-> NoName]
            ELSE /\ df.index.name = pre.index.name
                 /\ df.index.vals = [k \in DOMAIN rs |-> pre.index.vals[rs[k]]]

C13_Witness ==
    /\ DCNCalled /\ call.run = 1
    /\ ~index_is_default(pre)
    /\ pre.index.vals = <<8, 7, 8>>
    /\ 1 \notin Survivors
    /\ df.index.vals = <<7, 8>>

\* the cells of column j of the table the call left that are neither None nor
\* NaN
PresentInColumn(j) == {i \in 1..NRows(df) : ~IsAbsent(df.data[i][j])}

\* C28: after a call with empty_column_thresh >= 1 every column of the table
\* holds at least empty_column_thresh cells that are not absent, whatever
\* empty_row_thresh is and whether or not the final pass dropped rows.
C28_ColumnsKeepTheirCount ==
    (DCNCalled /\ call.empty_column_thresh >= 1) =>
        \A j \in 1..NCols(df) :
            Cardinality(PresentInColumn(j)) >= call.empty_column_thresh

C28_Witness ==
    /\ DCNCalled /\ call.run = 1
    /\ call.empty_row_thresh = 1 /\ call.empty_column_thresh = 2
    /\ NCols(df) = 1 /\ NCols(pre) = 2
    /\ NRows(df) = 2 /\ Cardinality(RowsKept) = 3
    /\ Cardinality(PresentInColumn(1)) = 2

(* ----------------------- properties of clean_null --------------------- *)

CNCalled == call.op = "clean_null"

\* the fingerprint of the argument under the call's special_characters
ValueFingerprint == fingerprint(value, call.special_characters)

\* the fingerprint is in an indicator set that applies under the call's
\* falsey_is_null
InIndicatorSets ==
    \/ ValueFingerprint \in NULL_INDICATORS
    \/ call.falsey_is_null /\ ValueFingerprint \in FALSEY_INDICATORS

\* a number or a text, not empty
NonEmptyScalar(x) == x.t \in {"int", "float", "bool"} \/ (x.t = "str" /\ x.v # <<>>)

\* falsey by the host's rules, for a scalar
FalseyScalar(x) ==
    \/ x.t \in {"int", "bool"} /\ x.v \in {<<"0">>, <<"F", "a", "l", "s", "e">>}
    \/ x.t = "float" /\ x.v = <<"0", ".", "0">>

\* the text starts with a bracket or has a quote as second character
SerializedLiteralLike(x) ==
    /\ x.t = "str"
    /\ \/ Len(x.v) >= 1 /\ x.v[1] \in {"[", "{", "("}
       \/ Len(x.v) >= 2 /\ x.v[2] \in {"'", "\""}

\* C14 (as claimed): clean_null returns None for the absence marker under every
\* setting, and returns the value itself for every non-empty scalar (number or
\* text) whose fingerprint is in no indicator set that applies and that is not
\* falsey when falsey_is_null is set.
C14_ScalarOutsideIndicatorsIsKept ==
    CNCalled =>
        /\ value \in {NoneV, NaN} => cleaned = NoneV
        /\ (/\ NonEmptyScalar(value)
            /\ ~InIndicatorSets
            /\ ~(call.falsey_is_null /\ FalseyScalar(value))) => cleaned = value

\* C14 (amended): the same, for the numbers and for the texts that do not look
\* like a serialized literal (no leading bracket, no quote as second character).
C14_PlainScalarOutsideIndicatorsIsKept ==
    CNCalled =>
        /\ value \in {NoneV, NaN} => cleaned = NoneV
        /\ (/\ NonEmptyScalar(value)
            /\ ~SerializedLiteralLike(value)
            /\ ~InIndicatorSets
            /\ ~(call.falsey_is_null /\ FalseyScalar(value))) => cleaned = value

C14_Witness ==
    /\ CNCalled
    /\ value = Str(<<"N", "/", "A">>)
    /\ call.special_characters = {"/"} /\ call.falsey_is_null
    /\ ValueFingerprint = <<"n", "/", "a">>
    /\ cleaned = value

\* the argument is a list, a tuple or a set of one element
SingleElement == value.t \in {"list", "tuple", "set"} /\ Len(value.items) = 1

\* C15 (as claimed): a list, tuple or set whose single element clean_null
\* classifies as not null-indicating under the call's falsey_is_null and
\* special_characters is itself classified as not null-indicating.
C15_SingleNonNullElement ==
    (/\ CNCalled /\ SingleElement
     /\ clean_null(value.items[1], call.falsey_is_null, call.special_characters)
            # NoneV) => cleaned = value

\* C16: a non-empty iterable that is not a text, all of whose elements are
\* null-indicating under the same falsey_is_null, is null-indicating; the
\* elements may be collections themselves.
C16_AllNullElements ==
    (/\ CNCalled /\ value.t \in {"list", "tuple", "set", "dict"}
     /\ value.items # <<>>
     /\ \A k \in DOMAIN value.items :
            clean_null(value.items[k], call.falsey_is_null, call.special_characters)
                = NoneV) => cleaned = NoneV

C16_Witness ==
    /\ CNCalled /\ ~call.falsey_is_null
    /\ value = ListV(<<NoneV, SetV(<<NoneV, Str(<<"N", "/", "A">>)>>)>>)
    /\ ~InIndicatorSets
    /\ cleaned = NoneV

\* C17 (as claimed): a non-empty dict is classified by its keys alone: every
\* dict with the same keys, whatever its values, gets the same classification,
\* and a dict whose keys are all null-indicating is null-indicating.
C17_DictByKeysOnly ==
    (CNCalled /\ value.t = "dict" /\ value.items # <<>>) =>
        /\ \A other \in Dicts :
               other.items = value.items =>
                   ((clean_null(other, call.falsey_is_null, call.special_characters)
                        = NoneV) <=> (cleaned = NoneV))
        /\ (\A k \in DOMAIN value.items :
                clean_null(value.items[k], call.falsey_is_null,
                           call.special_characters) = NoneV) => cleaned = NoneV

\* the texts "False" and "0", the number 0 and the boolean False
FalseyValues == {Str(<<"F", "a", "l", "s", "e">>), Str(<<"0">>), IntV(0), BoolV(FALSE)}

\* x is one of the falsey values or is null-indicating under the call's settings
FalseyOrNull(x) ==
    \/ x \in FalseyValues
    \/ clean_null(x, call.falsey_is_null, call.special_characters) = NoneV

\* x is a non-empty collection of falsey and null-indicating values
MadeOfFalseyOrNull(x) ==
    /\ x.t \in {"list", "tuple", "set", "dict"}
    /\ x.items # <<>>
    /\ \A k \in DOMAIN x.items : FalseyOrNull(x.items[k])

\* C18: without falsey_is_null the texts "False" and "0", the number 0 and
\* False are returned unchanged; with falsey_is_null each of them is
\* null-indicating, and so is every collection made only of such values and
\* null-indicating ones and every text that evaluates to such a value or
\* collection.
C18_FalseyOnlyWhenAsked ==
    CNCalled =>
        /\ (~call.falsey_is_null /\ value \in FalseyValues) => cleaned = value
        /\ (/\ call.falsey_is_null
            /\ \/ value \in FalseyValues
               \/ MadeOfFalseyOrNull(value)
               \/ /\ SerializedLiteralLike(value)
                  /\ literal_eval(value).ok
                  /\ \/ FalseyOrNull(literal_eval(value).val)
                     \/ MadeOfFalseyOrNull(literal_eval(value).val)) => cleaned = NoneV

C18_Witness ==
    /\ CNCalled /\ call.falsey_is_null
    /\ value = Str(ListV(<<IntV(0), Str(<<"F", "a", "l", "s", "e">>)>>).v)
    /\ ~InIndicatorSets
    /\ cleaned = NoneV

\* C19: no call of clean_null ends in an error, and a text that looks like a
\* serialized literal and does not evaluate is returned unchanged unless its
\* fingerprint is in an indicator set that applies.
C19_ParseFailureIsNotNull ==
    CNCalled =>
        /\ result = "None"
        /\ (SerializedLiteralLike(value) /\ ~literal_eval(value).ok) =>
               cleaned = IF InIndicatorSets THEN NoneV ELSE value

C19_Witness ==
    /\ CNCalled
    /\ value = Str(SetV(<<ListV(<<Str(<<"N", "/", "A">>), NoneV>>)>>).v)
    /\ literal_eval(value).err = "TypeError"
    /\ result = "None"
    /\ cleaned = value

\* the iterable whose elements are judged: the argument itself, or what a
\* text argument evaluates to
Container == IF value.t = "str" THEN literal_eval(value).val ELSE value

\* the argument is a non-text iterable, or a text that evaluates to one, and
\* the argument's own fingerprint and falsiness do not decide the call
JudgedByElements ==
    /\ CNCalled /\ result = "None"
    /\ ~InIndicatorSets
    /\ ~(call.falsey_is_null /\ IsFalsy(value))
    /\ IF value.t = "str"
       THEN LooksLikeLiteral(value) /\ literal_eval(value).ok
                /\ IsIterableNonStr(literal_eval(value).val)
       ELSE IsIterableNonStr(value)

\* C27 (as claimed): such an argument is null-indicating exactly when every
\* element is null-indicating under the call's own falsey_is_null and
\* special_characters.
C27_SpecialCharactersAtEveryLevel ==
    JudgedByElements =>
        (cleaned = NoneV <=>
            \A k \in DOMAIN Container.items :
                clean_null(Container.items[k], call.falsey_is_null,
                           call.special_characters) = NoneV)

(* ----------------- properties of merge_columns_by_label --------------- *)

MCLCalled == log /\ call.op = "merge_columns_by_label"

\* the labels that occur more than once among the column labels at entry
DuplicatedLabels ==
    {pre.columns[j] : j \in {k \in 1..NCols(pre) :
                                \E m \in 1..NCols(pre) : m # k /\ pre.columns[m] = pre.columns[k]}}

\* row i's values under all the occurrences of the label at entry, left to
\* right, without the absence markers
ValuesUnder(label, i) ==
    LET ps == Positions(NCols(pre),
                        {j \in 1..NCols(pre) :
                            pre.columns[j] = label /\ ~IsAbsent(pre.data[i][j])})
    IN  [k \in DOMAIN ps |-> pre.data[i][ps[k]]]

\* C20: after a call that returns, every label that occurred more than once
\* labels one column, and each row of that column holds the row's values from
\* all the occurrences of the label, left to right, without None and NaN: as a
\* list that keeps repeated values when deduplicate_values is false, as the set
\* of those values when it is true.
C20_MergedColumnHoldsRowValues ==
    (MCLCalled /\ result = "None") =>
        \A label \in DuplicatedLabels :
            \E j \in 1..NCols(df) :
                /\ \A m \in 1..NCols(df) : df.columns[m] = label <=> m = j
                /\ \A i \in 1..NRows(df) :
                       IF call.deduplicate_values
                       THEN /\ df.data[i][j].t = "set"
                            /\ Range(df.data[i][j].items) = Range(ValuesUnder(label, i))
                       ELSE /\ df.data[i][j].t = "list"
                            /\ df.data[i][j].items = ValuesUnder(label, i)

C20_Witness ==
    /\ MCLCalled /\ result = "None" /\ ~call.deduplicate_values
    /\ NRows(pre) = 1 /\ NCols(pre) = 4
    /\ pre.data[1] = <<Str(<<"b">>), NaN, Str(<<"a">>), Str(<<"a">>)>>
    /\ Cardinality(DuplicatedLabels) = 1
    /\ NCols(df) = 1
    /\ df.data[1][1] = ListV(<<Str(<<"b">>), Str(<<"a">>), Str(<<"a">>)>>)

\* the labels of a sequence of column labels without their repetitions, in
\* the order of their first occurrences
FirstOccurrences(columns) ==
    LET ps == Positions(Len(columns),
                        {j \in DOMAIN columns :
                            \A k \in DOMAIN columns : columns[k] = columns[j] => j <= k})
    IN  [k \in DOMAIN ps |-> columns[ps[k]]]

\* the positions in the table at entry of the columns whose label occurs once
SingleColumns ==
    {j \in 1..NCols(pre) : \A k \in 1..NCols(pre) : pre.columns[k] = pre.columns[j] => k = j}

\* C21: after a call that returns, the column labels are the distinct labels
\* of the table at entry in the order of their first occurrences, in whatever
\* order the duplicated labels were processed, and every column whose label
\* occurred exactly once holds the cells it held at entry.
C21_LabelsInFirstOccurrenceOrder ==
    (MCLCalled /\ result = "None") =>
        /\ df.columns = FirstOccurrences(pre.columns)
        /\ \A j \in SingleColumns :
               \E m \in 1..NCols(df) :
                   /\ df.columns[m] = pre.columns[j]
                   /\ Column(df, m) = Column(pre, j)

C21_Witness ==
    /\ MCLCalled /\ result = "None"
    /\ NRows(pre) = 1
    /\ pre.columns = <<Str(<<"E", "-", "m">>), Str(<<"c">>), Str(<<"c">>)>>
    /\ pre.data[1] = <<Str(<<"a">>), Str(<<"b">>), NaN>>
    /\ df.columns = <<Str(<<"E", "-", "m">>), Str(<<"c">>)>>
    /\ df.data[1][1] = Str(<<"a">>)

\* C22: when None labels more than one column, the call returns, the None
\* label is restored at its first occurrence, and every other column, one
\* labelled with the placeholder text included, keeps label and cells.
C22_PlaceholderColumnIsKept ==
    (MCLCalled /\ NoneV \in DuplicatedLabels) =>
        /\ result = "None"
        /\ \A j \in 1..NCols(pre) :
               pre.columns[j] = PlaceholderLabel =>
                   \E m \in 1..NCols(df) : df.columns[m] = PlaceholderLabel

\* C29 (as claimed): on a table that has a column labelled 'temp' the call
\* returns, the labels are the distinct labels at entry in the order of their
\* first occurrences, and the 'temp' column keeps its cells.
C29_TempColumnIsKept ==
    (MCLCalled /\ \E j \in 1..NCols(pre) : pre.columns[j] = TempLabel) =>
        /\ result = "None"
        /\ df.columns = FirstOccurrences(pre.columns)
        /\ \A j \in SingleColumns :
               pre.columns[j] = TempLabel =>
                   \E m \in 1..NCols(df) :
                       df.columns[m] = TempLabel /\ Column(df, m) = Column(pre, j)

(* ----------------------- properties of fingerprint -------------------- *)

\* C23: the result of fingerprint is a text that holds only characters of
\* [0-9a-z] and of special_characters, and fingerprint applied to that result
\* with the same special_characters gives the result back.
C23_FingerprintIdempotent ==
    /\ call.op \in {"fingerprint", "fingerprint_again"} =>
           /\ cleaned.t = "str"
           /\ \A i \in DOMAIN cleaned.v : cleaned.v[i] \in Alnum \cup call.special_characters
    /\ call.op = "fingerprint_again" =>
           cleaned = Str(fingerprint(value, call.special_characters))

C23_Witness ==
    /\ call.op = "fingerprint_again"
    /\ call.special_characters = {"A", "_"}
    /\ value = Str(<<"A", "_", "3">>)
    /\ cleaned = Str(<<"a", "_", "3">>)

(* ----------------------- properties of map_labels --------------------- *)

MLCalled == call.op = "map_labels"

\* the list of mapped labels in the value map_labels returned
MappedLabels == IF call.return_unmapped THEN cleaned.items[1] ELSE cleaned

\* the positions of the labels whose fingerprint is not a key of
\* fingerprint_map
NotFound ==
    {i \in DOMAIN value.items :
        fingerprint(value.items[i], call.special_characters) \notin DOMAIN call.fingerprint_map}

C25_UnmappedIsNone ==
    MLCalled =>
        /\ \A i \in NotFound : MappedLabels.items[i] = NoneV
        /\ call.return_unmapped =>
               /\ cleaned.t = "tuple"
               /\ cleaned.items[2].t = "set"
               /\ Range(cleaned.items[2].items) = {value.items[i] : i \in NotFound}

(* ----------------- properties of rename_duplicate_labels -------------- *)

RDLCalled == call.op = "rename_duplicate_labels"

\* the positions up to i that hold the label of position i
OccurrencesUpTo(i) == {j \in 1..i : value.items[j] = value.items[i]}

\* the label of position i occurs once in the list
OccursOnce(i) == \A j \in DOMAIN value.items : value.items[j] = value.items[i] => j = i

\* C26: a call that returns gives a list as long as labels; a label that
\* occurs once stands unchanged at its position, and the k-th occurrence of a
\* label that occurs more than once is replaced by the k-th value of the
\* label's generator, label_k with append_count.
C26_KthOccurrenceGetsKthName ==
    (RDLCalled /\ result = "None") =>
        /\ cleaned.t = "list"
        /\ Len(cleaned.items) = Len(value.items)
        /\ \A i \in DOMAIN value.items :
               LET k == Cardinality(OccurrencesUpTo(i))
               IN  IF OccursOnce(i)
                   THEN cleaned.items[i] = value.items[i]
                   ELSE /\ cleaned.items[i] = next_of(call.rename_generator, value.items[i], k)
                        /\ call.rename_generator = "append_count" =>
                               cleaned.items[i].v = value.items[i].v \o <<"_">> \o IntStr(k)

C26_Witness ==
    /\ RDLCalled /\ result = "None" /\ call.rename_generator = "append_count"
    /\ value.items = <<Str(<<"a">>), Str(<<"b">>), Str(<<"a">>)>>
    /\ cleaned.items = <<Str(<<"a", "_", "1">>), Str(<<"b">>), Str(<<"a", "_", "2">>)>>

\* C30: with append_count the result of a call on a list of texts holds no
\* label twice.
C30_RenamedLabelsAreDistinct ==
    (RDLCalled /\ call.rename_generator = "append_count"
        /\ \A i \in DOMAIN value.items : value.items[i].t = "str") =>
        /\ result = "None"
        /\ ~HasDuplicates(cleaned.items)

(* ----------------------- properties of the table ---------------------- *)

\* C9: after any sequence of calls of find_column_labels,
\* merge_columns_by_label and dataframe_clean_null, failed calls included, the
\* row index is as long as the table has rows and every row has as many cells
\* as there are column labels.
C9_IndexAndLabelsFitData ==
    /\ Len(df.index.vals) = Len(df.data)
    /\ \A i \in 1..Len(df.data) : Len(df.data[i]) = Len(df.columns)

CellsOf(d) == {d.data[i][j] : i \in 1..NRows(d), j \in 1..NCols(d)}

C9_Witness ==
    /\ ~log
    /\ call.op = "find_column_labels" /\ result = "IndexError"
    /\ \E x \in CellsOf(df) : x.t \in {"list", "set"}
    /\ NaN \in CellsOf(df)
    /\ NRows(df) >= 1 /\ NCols(df) >= 2

====
